---- MODULE Spec2Model ----
(***************************************************************************)
(* The field editor of aurora (src/aurora/core/field_editor.py): the       *)
(* attribute-group forms, the per-user per-field draft kept in the cache,  *)
(* the snapshot (patched_field) built from the stored field and the draft, *)
(* and the request handlers get, refresh, get_configuration, get_code,     *)
(* render and post.                                                        *)
(*                                                                         *)
(* Encoding.  Every leaf value is a string.  Python's True, False and None *)
(* are the strings "True", "False" and "None"; Falsy lists the encodings   *)
(* of the values Python treats as false.  A dict is a function whose       *)
(* domain is its key set, so an absent key is a key outside the domain.    *)
(* Each form keeps a representative subset of its declared fields, listed  *)
(* in FormFields; the fields left out are optional CharFields that behave  *)
(* like the ones kept.                                                     *)
(***************************************************************************)
EXTENDS Integers, Sequences, FiniteSets, TLC

\* ------------------------------------------------------------------ bounds
NumUsers == 2
NumFields == 2
MaxSteps == 2
MaxSessionSteps == 5
NumRacers == 2

Users == 1..NumUsers
Fields == 1..NumFields
Racers == 1..NumRacers

\* ------------------------------------------------------------------ state
VARIABLES
    db,         \* the stored FlexFormField rows, by pk
    validators, \* the names of the stored Validator rows
    cache,      \* the default cache: cache key -> stored config
    DEFAULTS,   \* the module-level DEFAULTS dict
    last,       \* the last request and its response
    inflight,   \* the refresh requests being handled step by step
    steps,      \* requests handled so far
    plan        \* which requests the environment sends: how many, and
                \* whether all by one user on one field

vars == <<db, validators, cache, DEFAULTS, last, inflight, steps, plan>>

\* ------------------------------------------------------------ value domain
EmptyMap == <<>>
Falsy == {"", "False", "None"}
Truthy(v) == v \notin Falsy

\* FieldEditor.FORMS, in its iteration order
FORMS == <<"field", "kwargs", "widget", "smart", "css">>
Prefixes == {FORMS[i] : i \in 1..Len(FORMS)}

\* the fields each form declares (FlexFieldAttributesForm.Meta.fields, ...)
FormFields ==
    [field  |-> {"label", "name", "required", "validator"},
     kwargs |-> {"default_value"},
     widget |-> {"placeholder"},
     smart  |-> {"hint", "datasource", "visible"},
     css    |-> {"input", "label", "fieldset", "question"}]

BooleanFields == [p \in Prefixes |->
    IF p = "field" THEN {"required"} ELSE IF p = "smart" THEN {"visible"} ELSE {}]

\* names of the OptionSet rows, as listed once by get_datasources
OptionSetNames == {"ds"}
get_datasources == {""} \cup OptionSetNames

\* columns of the field form that may not be empty
RequiredColumns == {"name"}

\* django.forms.BaseForm.add_prefix
add_prefix(prefix, name) == prefix \o "-" \o name

CsrfKey == "csrfmiddlewaretoken"

\* a key that leaves the field out
cache_key_user_only(user, pk) ==
    "/editor/field/" \o ToString(user) \o "/"

\* FieldEditor.__init__: the cache key of (user, field)
cache_key(user, pk) ==
    "/editor/field/" \o ToString(user) \o "/" \o ToString(pk) \o "/"

\* --------------------------------------------------------------- the forms
\* widget.value_from_datadict followed by the field's to_python
to_python(prefix, name, data) ==
    LET k == add_prefix(prefix, name)
        raw == IF k \in DOMAIN data THEN data[k] ELSE "None"
    IN IF name \in BooleanFields[prefix]
       THEN (IF raw \in {"None", "", "False", "false", "0"} THEN "False" ELSE "True")
       ELSE (IF raw = "None" THEN "" ELSE raw)

\* the model's own rules for a column of the field form: a required column
\* may not be blank, and a validator must name a stored Validator row
column_error(name, v) ==
    IF name \in RequiredColumns /\ v = "" THEN "required"
    ELSE IF name = "validator" /\ v # "" /\ v \notin validators THEN "invalid_choice"
    ELSE ""

\* the error code of one field of a bound form, "" when the field is clean
field_error(prefix, name, data) ==
    LET v == to_python(prefix, name, data)
    IN IF prefix = "field" THEN column_error(name, v)
       ELSE IF prefix = "smart" /\ name = "datasource" /\ v \notin get_datasources
            THEN "invalid_choice"
       ELSE ""

\* form.errors of the form of a prefix bound to data
errors(prefix, data) ==
    [n \in {m \in FormFields[prefix] : field_error(prefix, m, data) # ""} |->
        field_error(prefix, n, data)]

\* form.cleaned_data: the fields that passed, also when the form is invalid
cleaned_data(prefix, data) ==
    [n \in {m \in FormFields[prefix] : field_error(prefix, m, data) = ""} |->
        to_python(prefix, n, data)]

is_valid(prefix, data) == DOMAIN errors(prefix, data) = {}

\* all(map(lambda f: f.is_valid(), forms.values()))
all_valid(data) == \A p \in Prefixes : is_valid(p, data)

\* ModelForm._post_clean: validating a model form writes every cleaned
\* column onto the instance the form was built with
construct_instance(instance, cleaned) ==
    [c \in DOMAIN instance |->
        IF c \in DOMAIN cleaned THEN cleaned[c] ELSE instance[c]]

\* AdvancendAttrsMixin.__init__: with a field, initial is always the saved
\* group, whatever initial the caller passed
mixin_initial(field, prefix, passed) ==
    IF prefix \in DOMAIN field.advanced THEN field.advanced[prefix] ELSE EmptyMap

\* ------------------------------------------------------------ the defaults
\* get_initial: the static defaults of the prefix overridden by the truthy
\* saved values; DEFAULTS.get(prefix, {}) hands out the dict held by
\* DEFAULTS itself, so for a prefix of DEFAULTS the result is also what
\* DEFAULTS holds afterwards
get_initial(field, prefix, defaults) ==
    LET base == IF prefix \in DOMAIN defaults THEN defaults[prefix] ELSE EmptyMap
        saved == IF prefix \in DOMAIN field.advanced
                 THEN field.advanced[prefix] ELSE EmptyMap
        set == {k \in DOMAIN saved : Truthy(saved[k])}
    IN [k \in DOMAIN base \cup set |-> IF k \in set THEN saved[k] ELSE base[k]]

\* DEFAULTS after get_forms() called get_initial for every prefix
defaults_after(field, defaults) ==
    [p \in DOMAIN defaults |-> get_initial(field, p, defaults)]

\* ---------------------------------------------------------------- merging
\* merge_data on two attribute mappings: an overlay value replaces the base
\* value when it is truthy or when the base has no such key
merge_attrs(base, overlay) ==
    [k \in DOMAIN base \cup DOMAIN overlay |->
        IF k \in DOMAIN overlay /\ (k \notin DOMAIN base \/ Truthy(overlay[k]))
        THEN overlay[k] ELSE base[k]]

\* merge_data(d1, d2) on advanced mappings {prefix: {attr: value}}: mappings
\* met at the same key are merged key by key
merge_data(d1, d2) ==
    [p \in DOMAIN d1 \cup DOMAIN d2 |->
        IF p \in DOMAIN d1 /\ p \in DOMAIN d2 THEN merge_attrs(d1[p], d2[p])
        ELSE IF p \in DOMAIN d2 THEN d2[p] ELSE d1[p]]

\* the forms' cleaned data replacing the saved groups instead of being merged
merge_forms_replace(advanced, config, i) ==
    LET ps == {FORMS[j] : j \in i..Len(FORMS)}
    IN [p \in DOMAIN advanced \cup ps |->
        IF p \in ps THEN cleaned_data(p, config) ELSE advanced[p]]

\* only the truthy cleaned values are handed to merge_data
merge_forms_truthy_only(advanced, config, i) ==
    LET ps == {FORMS[j] : j \in i..Len(FORMS)}
        kept(p) == {k \in DOMAIN cleaned_data(p, config) :
                        Truthy(cleaned_data(p, config)[k])}
    IN merge_data(advanced,
                  [p \in ps |-> [k \in kept(p) |-> cleaned_data(p, config)[k]]])

\* a truthy cleaned value appended to the saved value instead of replacing it
merge_forms_append(advanced, config, i) ==
    LET ps == {FORMS[j] : j \in i..Len(FORMS)}
        merged == merge_data(advanced, [p \in ps |-> cleaned_data(p, config)])
    IN [p \in DOMAIN merged |->
        [k \in DOMAIN merged[p] |->
            IF /\ p \in ps /\ p \in DOMAIN advanced
               /\ k \in DOMAIN advanced[p] /\ k \in DOMAIN cleaned_data(p, config)
               /\ Truthy(cleaned_data(p, config)[k])
            THEN advanced[p][k] \o cleaned_data(p, config)[k]
            ELSE merged[p][k]]]

\* ----------------------------------------------------------- the snapshot
\* lines 118-121 for the forms FORMS[i..]: each form's cleaned data is
\* merged into advanced under its prefix, valid or not
RECURSIVE merge_forms(_, _, _)
merge_forms(advanced, config, i) ==
    IF i > Len(FORMS) THEN advanced
    ELSE merge_forms(merge_data(advanced, FORMS[i] :> cleaned_data(FORMS[i], config)),
                     config, i + 1)

\* cache.get(self.cache_key, None)
cache_get(c, key) == IF key \in DOMAIN c THEN c[key] ELSE EmptyMap

\* the merged advanced never assigned back to the field
patched_field_unmerged(fld, config) ==
    IF DOMAIN config = {} THEN fld
    ELSE construct_instance(fld, cleaned_data("field", config))

\* the field form left among the forms that are merged into advanced
patched_field_keeps_field(fld, config) ==
    IF DOMAIN config = {} THEN fld
    ELSE LET checked == construct_instance(fld, cleaned_data("field", config))
         IN [checked EXCEPT !.advanced = merge_forms(checked.advanced, config, 1)]

\* FieldEditor.patched_field on the request's field object and the cached
\* config; an absent config and an empty one both count as no draft
patched_field(fld, config) ==
    IF DOMAIN config = {} THEN fld
    ELSE LET checked == construct_instance(fld, cleaned_data("field", config))
             written == IF is_valid("field", config)
                        THEN construct_instance(checked, cleaned_data("field", config))
                        ELSE checked
         IN [written EXCEPT !.advanced = merge_forms(written.advanced, config, 2)]

\* ----------------------------------------------------------------- inputs
Token == CsrfKey :> "tok"

\* the POST payloads the requests draw from
Payloads ==
    { Token @@ ("field-name" :> "n2") @@ ("field-label" :> "L2")
            @@ ("css-label" :> "") @@ ("css-question" :> "cursor-pointer"),
      Token @@ ("field-name" :> "n1") @@ ("smart-hint" :> "y")
            @@ ("widget-placeholder" :> "ok"),
      Token @@ ("field-name" :> "n3") @@ ("field-required" :> "on")
            @@ ("field-validator" :> "v1")
            @@ ("css-label" :> "l2") @@ ("smart-datasource" :> "ds"),
      Token @@ ("field-name" :> "") @@ ("field-label" :> "L3")
            @@ ("widget-placeholder" :> "ok"),
      Token @@ ("field-name" :> "n2") @@ ("smart-datasource" :> "zz")
            @@ ("smart-hint" :> "z"),
      Token @@ ("smart-datasource" :> "zz") @@ ("css-label" :> "l2"),
      ("field-name" :> "n2") @@ ("kwargs-default_value" :> "d") }

NoRequest ==
    [op |-> "", user |-> 0, pk |-> 0, POST |-> EmptyMap, status |-> 0,
     data |-> EmptyMap, errors |-> EmptyMap, snapshot |-> EmptyMap,
     initial |-> EmptyMap, previous |-> EmptyMap]

\* DEFAULTS as the module text sets it
StaticDefaults ==
    [css |-> [question |-> "cursor-pointer",
              label |-> "block uppercase tracking-wide text-gray-700 font-bold mb-2"]]

\* the stored rows, the empty cache and the DEFAULTS of a fresh process
Start ==
    /\ db = [pk \in Fields |->
                IF pk = 1
                THEN [label |-> "L1", name |-> "n1", required |-> "False",
                      validator |-> "",
                      advanced |-> [css |-> [label |-> "block mb-2"]]]
                ELSE [label |-> "M1", name |-> "m1", required |-> "True",
                      validator |-> "",
                      advanced |-> [smart |-> [hint |-> "x", visible |-> "True"]]]]
    /\ validators = {"v1"}
    /\ cache = EmptyMap
    /\ inflight = EmptyMap
    /\ DEFAULTS = StaticDefaults
    /\ last = NoRequest
    /\ steps = 0

\* the draft of (user, field), EmptyMap when there is none
Draft(user, pk) == cache_get(cache, cache_key(user, pk))
HasDraft(user, pk) == cache_key(user, pk) \in DOMAIN cache

\* the environment sends the request of this user on this field now
Admits(user, pk) ==
    /\ steps < plan.limit
    /\ plan.session => (last.user = 0 \/ (last.user = user /\ last.pk = pk))

\* --------------------------------------------------------------- requests
\* FieldEditor.get: the forms are built unbound with the saved initial
get(user, pk) ==
    /\ Admits(user, pk)
    /\ DEFAULTS' = defaults_after(db[pk], DEFAULTS)
    /\ last' = [NoRequest EXCEPT !.op = "get", !.user = user, !.pk = pk,
                    !.status = 200,
                    !.initial = [p \in Prefixes |->
                        mixin_initial(db[pk], p, get_initial(db[pk], p, DEFAULTS))]]
    /\ steps' = steps + 1
    /\ UNCHANGED <<validators, inflight, plan>>
    /\ UNCHANGED <<db, cache>>

\* data = self.request.POST.dict(); data.pop("csrfmiddlewaretoken")
sanitized(POST) == [k \in DOMAIN POST \ {CsrfKey} |-> POST[k]]

\* only the forms all() reached report their errors
refresh_errors_reached(POST) ==
    [p \in Prefixes |->
        IF \E j \in 1..Len(FORMS) :
              FORMS[j] = p /\ \A h \in 1..(j - 1) : is_valid(FORMS[h], POST)
        THEN errors(p, POST) ELSE EmptyMap]

\* line 194: the errors of every form; reading form.errors validates a form
\* that all() did not reach
refresh_errors(POST) == [p \in Prefixes |-> errors(p, POST)]

\* the new config merged into the one the cache holds
cache_set_merge(c, key, data) ==
    [k \in DOMAIN c \cup {key} |->
        IF k = key
        THEN [a \in DOMAIN data \cup DOMAIN cache_get(c, key) |->
                IF a \in DOMAIN data THEN data[a] ELSE c[key][a]]
        ELSE c[k]]

\* cache.set(self.cache_key, data)
cache_set(c, key, data) ==
    [k \in DOMAIN c \cup {key} |-> IF k = key THEN data ELSE c[k]]

\* the cache written before the forms are looked at
refresh_cache_unchecked(c, key, POST) ==
    IF CsrfKey \in DOMAIN POST THEN cache_set(c, key, sanitized(POST)) ELSE c

\* the cache after refresh: written when every form is valid and the token
\* could be popped
refresh_cache(c, key, POST) ==
    IF all_valid(POST) /\ CsrfKey \in DOMAIN POST
    THEN cache_set(c, key, sanitized(POST)) ELSE c

\* FieldEditor.refresh: status 500 stands for the KeyError of popping a
\* token the payload does not have
refresh(user, pk, POST) ==
    /\ Admits(user, pk)
    /\ DEFAULTS' = defaults_after(db[pk], DEFAULTS)
    /\ cache' = refresh_cache(cache, cache_key(user, pk), POST)
    /\ last' = [NoRequest EXCEPT !.op = "refresh", !.user = user, !.pk = pk,
                    !.POST = POST,
                    !.status = IF ~all_valid(POST) THEN 400
                               ELSE IF CsrfKey \in DOMAIN POST THEN 200 ELSE 500,
                    !.data = IF all_valid(POST) /\ CsrfKey \in DOMAIN POST
                             THEN sanitized(POST) ELSE EmptyMap,
                    !.errors = IF all_valid(POST) THEN EmptyMap
                               ELSE refresh_errors(POST)]
    /\ steps' = steps + 1
    /\ UNCHANGED <<validators, inflight, plan>>
    /\ UNCHANGED db

\* a view that saves the snapshot it built
view_saves(op, user, pk) ==
    /\ Admits(user, pk)
    /\ last' = [op |-> op, user |-> user, pk |-> pk, POST |-> EmptyMap,
                status |-> 200, data |-> EmptyMap, errors |-> EmptyMap,
                snapshot |-> patched_field(db[pk], cache_get(cache, cache_key(user, pk))),
                initial |-> EmptyMap, previous |-> EmptyMap]
    /\ db' = [db EXCEPT ![pk] = patched_field(db[pk], cache_get(cache, cache_key(user, pk)))]
    /\ steps' = steps + 1
    /\ UNCHANGED <<validators, inflight, plan>>
    /\ UNCHANGED <<cache, DEFAULTS>>

\* get_configuration, get_code and render: each builds patched_field from
\* the stored row and the draft and answers from it
Views == {"get_configuration", "get_code", "render"}

\* what the last request answered, when it was a view of the same user on
\* the same field
previous_view(user, pk) ==
    IF last.op \in Views /\ last.user = user /\ last.pk = pk
    THEN last.snapshot ELSE EmptyMap

\* a view that takes the draft out of the cache as it reads it
view_pops_draft(op, user, pk) ==
    /\ Admits(user, pk)
    /\ last' = [NoRequest EXCEPT !.op = op, !.user = user, !.pk = pk,
                    !.status = 200,
                    !.snapshot = patched_field(db[pk], Draft(user, pk)),
                    !.previous = previous_view(user, pk)]
    /\ cache' = [k \in DOMAIN cache \ {cache_key(user, pk)} |-> cache[k]]
    /\ steps' = steps + 1
    /\ UNCHANGED <<validators, inflight, plan>>
    /\ UNCHANGED <<db, DEFAULTS>>

view(op, user, pk) ==
    /\ Admits(user, pk)
    /\ last' = [NoRequest EXCEPT !.op = op, !.user = user, !.pk = pk,
                    !.status = 200,
                    !.snapshot = patched_field(db[pk], Draft(user, pk)),
                    !.previous = previous_view(user, pk)]
    /\ steps' = steps + 1
    /\ UNCHANGED <<validators, inflight, plan>>
    /\ UNCHANGED <<db, cache, DEFAULTS>>

\* the object post() saves: the field form comes first in FORMS, so its
\* is_valid() has written the posted columns onto self.field before
\* patched_field reads it
post_saved(field, POST, config) ==
    patched_field(construct_instance(field, cleaned_data("field", POST)), config)

\* a post that saves without looking at the forms
post_db_unchecked(d, pk, POST, config) ==
    [d EXCEPT ![pk] = post_saved(d[pk], POST, config)]

\* the stored row after post()
post_db(d, pk, POST, config) ==
    IF all_valid(POST)
    THEN [d EXCEPT ![pk] = post_saved(d[pk], POST, config)] ELSE d

\* FieldEditor.post: status 302 on success; otherwise the method returns
\* nothing, shown as status 0
post(user, pk, POST) ==
    /\ Admits(user, pk)
    /\ DEFAULTS' = defaults_after(db[pk], DEFAULTS)
    /\ db' = post_db(db, pk, POST, Draft(user, pk))
    /\ last' = [NoRequest EXCEPT !.op = "post", !.user = user, !.pk = pk,
                    !.POST = POST,
                    !.status = IF all_valid(POST) THEN 302 ELSE 0,
                    !.snapshot = IF all_valid(POST)
                                 THEN post_saved(db[pk], POST, Draft(user, pk))
                                 ELSE EmptyMap]
    /\ steps' = steps + 1
    /\ UNCHANGED <<validators, inflight, plan>>
    /\ UNCHANGED cache

Next ==
    \E user \in Users, pk \in Fields :
        \/ get(user, pk)
        \/ \E POST \in Payloads : refresh(user, pk, POST)
        \/ \E op \in Views : view(op, user, pk)
        \/ \E POST \in Payloads : post(user, pk, POST)

\* a Validator row that no stored field refers to is deleted
delete_validator(name) ==
    /\ name \in validators
    /\ \A pk \in Fields : db[pk].validator # name
    /\ validators' = validators \ {name}
    /\ last' = [NoRequest EXCEPT !.op = "delete_validator",
                    !.user = last.user, !.pk = last.pk]
    /\ UNCHANGED <<db, cache, DEFAULTS, inflight, steps, plan>>

\* any user works on any field, MaxSteps requests in all
Init == Start /\ plan = [limit |-> MaxSteps, session |-> FALSE]

Spec == Init /\ [][Next]_vars

\* one editing session of MaxSessionSteps requests: the first request picks
\* the user and the field, every later request is of the same user on the
\* same field
InitSession == Start /\ plan = [limit |-> MaxSessionSteps, session |-> TRUE]

SpecSession == InitSession /\ [][Next]_vars

TypeOK ==
    /\ DOMAIN db = Fields
    /\ steps \in 0..plan.limit
    /\ \A k \in DOMAIN cache : CsrfKey \notin DOMAIN cache[k]

\* ------------------------------------------------- refresh, step by step
\* the user and the field of the concurrent refresh requests
RaceUser == 1
RacePk == 1

\* how many of the concurrent requests have written the cache
writes_done == Cardinality({i \in DOMAIN inflight : inflight[i].turn > 0})

\* lines 188-191 of one request: the forms are built and validated, and the
\* token is popped from the payload; the request ends here with status 400
\* when a form is invalid and with the KeyError when there is no token
refresh_begin(i, POST) ==
    /\ i \notin DOMAIN inflight
    /\ DEFAULTS' = defaults_after(db[RacePk], DEFAULTS)
    /\ inflight' = [j \in DOMAIN inflight \cup {i} |->
            IF j = i
            THEN [pc |-> IF all_valid(POST) /\ CsrfKey \in DOMAIN POST
                         THEN "popped" ELSE "done",
                  POST |-> POST,
                  data |-> IF all_valid(POST) /\ CsrfKey \in DOMAIN POST
                           THEN sanitized(POST) ELSE EmptyMap,
                  turn |-> 0]
            ELSE inflight[j]]
    /\ last' = IF all_valid(POST) /\ CsrfKey \in DOMAIN POST THEN last
               ELSE [NoRequest EXCEPT !.op = "refresh", !.user = RaceUser,
                        !.pk = RacePk, !.POST = POST,
                        !.status = IF all_valid(POST) THEN 500 ELSE 400,
                        !.errors = IF all_valid(POST) THEN EmptyMap
                                   ELSE refresh_errors(POST)]
    /\ UNCHANGED <<db, validators, cache, steps, plan>>

\* lines 192 and 195 of one request: the popped payload is written under the
\* cache key and returned
refresh_set(i) ==
    /\ i \in DOMAIN inflight
    /\ inflight[i].pc = "popped"
    /\ cache' = cache_set(cache, cache_key(RaceUser, RacePk), inflight[i].data)
    /\ inflight' = [inflight EXCEPT ![i].pc = "done", ![i].turn = writes_done + 1]
    /\ last' = [NoRequest EXCEPT !.op = "refresh", !.user = RaceUser,
                    !.pk = RacePk, !.POST = inflight[i].POST, !.status = 200,
                    !.data = inflight[i].data]
    /\ UNCHANGED <<db, validators, DEFAULTS, steps, plan>>

\* an earlier stage of the same user on the same field, then the concurrent
\* refresh requests, their steps in any order
NextRace ==
    \/ \E POST \in Payloads :
          DOMAIN inflight = {} /\ refresh(RaceUser, RacePk, POST)
    \/ \E i \in Racers : \E POST \in Payloads : refresh_begin(i, POST)
    \/ \E i \in Racers : refresh_set(i)

InitRace == Start /\ plan = [limit |-> 1, session |-> FALSE]

SpecRace == InitRace /\ [][NextRace]_vars

\* an editing session during which Validator rows may be deleted
NextDrift ==
    \/ Next
    \/ \E name \in validators : delete_validator(name)

SpecDrift == InitSession /\ [][NextDrift]_vars

\* ----------------------------------------------------------- properties
\* the step just taken handled a request of this kind
Handled(op) == steps' = steps + 1 /\ last'.op = op

DraftIn(c, user, pk) == cache_get(c, cache_key(user, pk))
Pairs == Users \X Fields

\* C1: a stage (refresh) whose payload has an invalid group writes no draft:
\* the cache, with or without an earlier draft of the pair, is the same
\* after the request as before, and no payload is returned.
C1_StageAllOrNothing ==
    [][(Handled("refresh") /\ ~all_valid(last'.POST))
        => (cache' = cache /\ last'.data = EmptyMap)]_vars

\* a failed stage met an earlier draft of the same pair
C1_Witness ==
    /\ last.op = "refresh"
    /\ ~all_valid(last.POST)
    /\ HasDraft(last.user, last.pk)

\* C2: a request that is not a successful commit (load, stage, configuration,
\* code, preview, refused commit) leaves every stored field as it was.
C2_SnapshotNonMutation ==
    [][(steps' = steps + 1 /\ ~(last'.op = "post" /\ last'.status = 302))
        => db' = db]_vars

\* a view built a snapshot that differs from the stored field
C2_Witness ==
    /\ last.op \in Views
    /\ HasDraft(last.user, last.pk)
    /\ last.snapshot # db[last.pk]

\* C3: after a successful commit the stored field equals the snapshot built
\* from the field as stored before and the current draft of the pair.
C3_CommitPersistsSnapshot ==
    [][(Handled("post") /\ last'.status = 302)
        => db'[last'.pk] = patched_field(db[last'.pk], Draft(last'.user, last'.pk))]_vars

\* C4: a commit whose payload has an invalid group changes neither the
\* stored fields nor the draft cache.
C4_InvalidCommitChangesNothing ==
    [][(Handled("post") /\ ~all_valid(last'.POST))
        => (db' = db /\ cache' = cache /\ last'.status = 0)]_vars

\* a refused commit of a pair that has a draft to apply
C4_Witness ==
    /\ last.op = "post"
    /\ ~all_valid(last.POST)
    /\ HasDraft(last.user, last.pk)
    /\ patched_field(db[last.pk], Draft(last.user, last.pk)) # db[last.pk]

\* the scenario: stored advanced {"css": {"label": "block mb-2"}}, a draft
\* with css.label = "" and css.question = "cursor-pointer", and the merged
\* configuration asked for
ScenarioCase ==
    LET draft == Draft(last.user, last.pk)
    IN /\ last.op = "get_configuration"
       /\ db[last.pk].advanced = [css |-> [label |-> "block mb-2"]]
       /\ HasDraft(last.user, last.pk)
       /\ to_python("css", "label", draft) = ""
       /\ to_python("css", "question", draft) = "cursor-pointer"
       /\ \A p \in Prefixes \ {"field"} : \A k \in FormFields[p] :
            (p # "css" \/ k \notin {"label", "question"})
                => ~Truthy(to_python(p, k, draft))

\* C5 as stated: in the scenario the merged configuration is exactly
\* {"css": {"label": "block mb-2", "question": "cursor-pointer"}}.
C5_ScenarioExact ==
    ScenarioCase =>
        last.snapshot.advanced =
            [css |-> [label |-> "block mb-2", question |-> "cursor-pointer"]]

\* C5 amended: in the scenario the merged configuration has css.label
\* "block mb-2" and css.question "cursor-pointer"; every other entry is a
\* declared attribute of a non-field group and holds a falsy value.
C5_ScenarioMerged ==
    ScenarioCase =>
        LET conf == last.snapshot.advanced
        IN /\ DOMAIN conf = Prefixes \ {"field"}
           /\ \A p \in DOMAIN conf : DOMAIN conf[p] = FormFields[p]
           /\ conf["css"]["label"] = "block mb-2"
           /\ conf["css"]["question"] = "cursor-pointer"
           /\ \A p \in DOMAIN conf : \A k \in DOMAIN conf[p] :
                (p # "css" \/ k \notin {"label", "question"}) => conf[p][k] \in Falsy

C5_Witness == ScenarioCase

\* C6: every key stored in advanced[prefix] of a field stays stored, and its
\* value changes only in a successful commit whose draft gives that key a
\* truthy value, which becomes the new value.
C6_AdditiveMerge ==
    [][\A pk \in Fields : \A p \in DOMAIN db[pk].advanced :
         /\ p \in DOMAIN db'[pk].advanced
         /\ \A k \in DOMAIN db[pk].advanced[p] :
              /\ k \in DOMAIN db'[pk].advanced[p]
              /\ db'[pk].advanced[p][k] # db[pk].advanced[p][k] =>
                   /\ Handled("post") /\ last'.status = 302 /\ last'.pk = pk
                   /\ p \in Prefixes
                   /\ k \in FormFields[p]
                   /\ k \in DOMAIN cleaned_data(p, Draft(last'.user, pk))
                   /\ Truthy(cleaned_data(p, Draft(last'.user, pk))[k])
                   /\ db'[pk].advanced[p][k] = cleaned_data(p, Draft(last'.user, pk))[k]]_vars

\* a commit applied a draft whose value for a stored truthy key is falsy, and
\* the stored value is still there
C6_Witness ==
    /\ last.op = "post" /\ last.status = 302
    /\ HasDraft(last.user, last.pk)
    /\ \E p \in Prefixes \ {"field"} : \E k \in FormFields[p] :
         /\ ~Truthy(to_python(p, k, Draft(last.user, last.pk)))
         /\ p \in DOMAIN db[last.pk].advanced
         /\ k \in DOMAIN db[last.pk].advanced[p]
         /\ Truthy(db[last.pk].advanced[p][k])

\* C7: with no draft of the pair in the cache, the snapshot used by
\* get_configuration, get_code, render and post equals the stored field,
\* and the request is answered normally.
C7_NoDraftIdentity ==
    [][(steps' = steps + 1 /\ last'.op \in Views \cup {"post"}
          /\ last'.status # 0 /\ ~HasDraft(last'.user, last'.pk))
        => (last'.snapshot = db[last'.pk] /\ last'.status \in {200, 302})]_vars

\* C8: a stage by one pair leaves the draft of every other pair, and the
\* snapshot built for every other pair, as it was.
C8_DraftSlotIsolation ==
    [][Handled("refresh") =>
        \A pair \in Pairs : pair # <<last'.user, last'.pk>> =>
            /\ (cache_key(pair[1], pair[2]) \in DOMAIN cache')
                 = (cache_key(pair[1], pair[2]) \in DOMAIN cache)
            /\ DraftIn(cache', pair[1], pair[2]) = DraftIn(cache, pair[1], pair[2])
            /\ patched_field(db'[pair[2]], DraftIn(cache', pair[1], pair[2]))
                 = patched_field(db[pair[2]], DraftIn(cache, pair[1], pair[2]))]_vars

\* a stage wrote a draft while another pair holds a different draft
C8_Witness ==
    /\ last.op = "refresh" /\ last.status = 200
    /\ \E pair \in Pairs :
         /\ pair # <<last.user, last.pk>>
         /\ HasDraft(pair[1], pair[2])
         /\ Draft(pair[1], pair[2]) # Draft(last.user, last.pk)

\* C9: after a stage whose groups all validate, the draft of the pair is the
\* submitted payload without the anti-forgery token, and the response
\* returns that payload.
C9_StageStoresRawPayload ==
    [][(Handled("refresh") /\ all_valid(last'.POST)) =>
        /\ cache_key(last'.user, last'.pk) \in DOMAIN cache'
        /\ DraftIn(cache', last'.user, last'.pk)
             = [k \in DOMAIN last'.POST \ {CsrfKey} |-> last'.POST[k]]
        /\ last'.status = 200
        /\ last'.data = DraftIn(cache', last'.user, last'.pk)]_vars

\* C10: the answer to a failed stage is status 400 with an entry for every
\* prefix; a group's entry is empty exactly when the group is valid, an
\* empty required name is reported under field.name, and nothing is cached.
C10_AllErrorsTogether ==
    [][(Handled("refresh") /\ ~all_valid(last'.POST)) =>
        /\ last'.status = 400
        /\ DOMAIN last'.errors = Prefixes
        /\ \A p \in Prefixes :
             /\ is_valid(p, last'.POST) <=> DOMAIN last'.errors[p] = {}
             /\ \A k \in FormFields[p] :
                  (k \in DOMAIN last'.errors[p]) <=> (k \notin DOMAIN cleaned_data(p, last'.POST))
        /\ to_python("field", "name", last'.POST) = ""
             => ("name" \in DOMAIN last'.errors["field"]
                 /\ last'.errors["field"]["name"] = "required")
        /\ cache' = cache]_vars

\* a failed stage with two invalid groups, the later one reported as well
C10_Witness ==
    /\ last.op = "refresh" /\ last.status = 400
    /\ DOMAIN last.errors["field"] # {}
    /\ DOMAIN last.errors["smart"] # {}
    /\ DOMAIN last.errors["widget"] = {}

\* C11: binding the defaults has no side effect: DEFAULTS is what the module
\* text sets, the defaults computed for a group of a field are the static
\* ones overridden by that field's own truthy saved values, whatever was
\* loaded or staged before, and those are the defaults a load binds.
C11_BindingSideEffectFree ==
    /\ DEFAULTS = StaticDefaults
    /\ \A pk \in Fields : \A p \in Prefixes :
         get_initial(db[pk], p, DEFAULTS) = get_initial(db[pk], p, StaticDefaults)
    /\ last.op = "get" =>
         \A p \in Prefixes \ {"field"} :
            last.initial[p] = get_initial(db[last.pk], p, StaticDefaults)

\* C12: a view (get_configuration, get_code, render) that follows a view of
\* the same user on the same field, the stored field and the draft being
\* what they were, answers with the same merged advanced configuration.
C12_IdempotentPreview ==
    (last.op \in Views /\ DOMAIN last.previous # {})
        => last.snapshot.advanced = last.previous.advanced

\* a second view in a row of a field with a draft that changes the
\* configuration
C12_Witness ==
    /\ last.op \in Views
    /\ DOMAIN last.previous # {}
    /\ HasDraft(last.user, last.pk)
    /\ last.snapshot.advanced # db[last.pk].advanced

\* C13: in the snapshot built from a draft, an attribute the stored advanced
\* lacks takes the draft's cleaned value even when that value is falsy, and
\* a stored group is merged key by key, its keys all kept: stored smart
\* {hint: x, visible: True} under a draft with smart.hint = y keeps visible
\* and takes hint y.
C13_MergeAdoptsAndRecurses ==
    (last.op \in Views /\ HasDraft(last.user, last.pk)) =>
        LET base == db[last.pk].advanced
            snap == last.snapshot.advanced
            draft == Draft(last.user, last.pk)
        IN /\ \A p \in Prefixes \ {"field"} :
                /\ p \in DOMAIN snap
                /\ \A k \in DOMAIN cleaned_data(p, draft) :
                     (p \notin DOMAIN base \/ k \notin DOMAIN base[p])
                        => (k \in DOMAIN snap[p]
                            /\ snap[p][k] = cleaned_data(p, draft)[k])
                /\ p \in DOMAIN base => \A k \in DOMAIN base[p] :
                     /\ k \in DOMAIN snap[p]
                     /\ k \notin DOMAIN cleaned_data(p, draft)
                          => snap[p][k] = base[p][k]
           /\ ("smart" \in DOMAIN base
                 /\ base["smart"] = [hint |-> "x", visible |-> "True"]
                 /\ to_python("smart", "hint", draft) = "y"
                 /\ "smart-visible" \notin DOMAIN draft)
                => (snap["smart"]["hint"] = "y" /\ snap["smart"]["visible"] = "True")

\* the example's field under a draft with smart.hint = y, with a group the
\* stored advanced lacks adopted with a falsy value
C13_Witness ==
    /\ last.op \in Views
    /\ HasDraft(last.user, last.pk)
    /\ db[last.pk].advanced = [smart |-> [hint |-> "x", visible |-> "True"]]
    /\ to_python("smart", "hint", Draft(last.user, last.pk)) = "y"
    /\ last.snapshot.advanced["smart"]["hint"] = "y"
    /\ last.snapshot.advanced["smart"]["visible"] = "True"
    /\ last.snapshot.advanced["kwargs"]["default_value"] = ""

\* C14: in a snapshot built from a draft the columns of the field form are
\* the draft's cleaned values when the field form is valid and the stored
\* values otherwise, and every other form's cleaned data is merged into
\* advanced, valid or not.
C14_AsymmetricApplication ==
    (last.op \in Views /\ HasDraft(last.user, last.pk)) =>
        LET draft == Draft(last.user, last.pk)
            stored == db[last.pk]
        IN /\ \A c \in FormFields["field"] :
                last.snapshot[c] =
                    IF is_valid("field", draft)
                    THEN cleaned_data("field", draft)[c] ELSE stored[c]
           /\ last.snapshot.advanced = merge_forms(stored.advanced, draft, 2)

\* C15: the keys of every stored advanced mapping, and of the advanced
\* mapping of every snapshot, are among kwargs, widget, smart and css; the
\* key field is never one of them.
C15_GroupKeys ==
    /\ \A pk \in Fields : DOMAIN db[pk].advanced \subseteq Prefixes \ {"field"}
    /\ DOMAIN last.snapshot # {}
         => DOMAIN last.snapshot.advanced \subseteq Prefixes \ {"field"}

\* a commit stored a draft's groups: all four prefixes are keys of the
\* stored advanced
C15_Witness ==
    /\ last.op = "post" /\ last.status = 302
    /\ HasDraft(last.user, last.pk)
    /\ DOMAIN db[last.pk].advanced = Prefixes \ {"field"}

\* the concurrent requests that have written the cache, and the last of them
Writers == {i \in DOMAIN inflight : inflight[i].turn > 0}
LastWriter == CHOOSE i \in Writers : \A j \in Writers : inflight[j].turn <= inflight[i].turn

\* C16: whatever the order of the steps of concurrent valid stage requests
\* of one user on one field, the draft is in full the payload (without the
\* token) of the request that wrote the cache last: no key of another
\* request's payload or of the earlier draft is mixed in.
C16_LastWriteWins ==
    Writers # {} =>
        /\ HasDraft(RaceUser, RacePk)
        /\ Draft(RaceUser, RacePk)
             = [k \in DOMAIN inflight[LastWriter].POST \ {CsrfKey} |->
                    inflight[LastWriter].POST[k]]

\* two requests with different payloads both wrote over an earlier draft,
\* and the draft has a key that one of the two payloads does not have
C16_Witness ==
    /\ steps = 1
    /\ Cardinality(Writers) >= 2
    /\ \E i \in Writers : i # LastWriter /\ inflight[i].POST # inflight[LastWriter].POST
    /\ \E k \in DOMAIN Draft(RaceUser, RacePk) :
         \E i \in Writers : k \notin DOMAIN inflight[i].POST

\* C17: only a stage in which every group validated writes the draft cache,
\* and after such a stage the draft of its (user, field) is absent or the
\* sanitized payload of that stage; load, get-configuration, get-code,
\* preview and commit never create, change or remove a draft.
C17_OnlyValidStageWrites ==
    [][/\ cache' # cache => Handled("refresh") /\ all_valid(last'.POST)
       /\ \A p \in Pairs : DraftIn(cache', p[1], p[2]) # DraftIn(cache, p[1], p[2])
            => p = <<last'.user, last'.pk>>
       /\ Handled("refresh") /\ all_valid(last'.POST)
            => \/ cache_key(last'.user, last'.pk) \notin DOMAIN cache'
               \/ DraftIn(cache', last'.user, last'.pk)
                    = [k \in DOMAIN last'.POST \ {CsrfKey} |-> last'.POST[k]]]_vars

\* C18: right after a successful commit with the draft left in the cache,
\* the snapshot built from the persisted field and that draft is the
\* persisted field, and committing the same payload again with that draft
\* leaves the persisted field as it is.
C18_CommitFixedPoint ==
    (last.op = "post" /\ last.status = 302 /\ HasDraft(last.user, last.pk)) =>
        /\ patched_field(db[last.pk], Draft(last.user, last.pk)) = db[last.pk]
        /\ post_db(db, last.pk, last.POST, Draft(last.user, last.pk)) = db

\* a successful commit has persisted a truthy draft value of an advanced
\* group, with the draft still in the cache
C18_Witness ==
    /\ last.op = "post" /\ last.status = 302 /\ HasDraft(last.user, last.pk)
    /\ db[last.pk].name = cleaned_data("field", Draft(last.user, last.pk)).name
    /\ \E p \in Prefixes \ {"field"} :
         \E k \in DOMAIN cleaned_data(p, Draft(last.user, last.pk)) :
            /\ Truthy(cleaned_data(p, Draft(last.user, last.pk))[k])
            /\ db[last.pk].advanced[p][k] = cleaned_data(p, Draft(last.user, last.pk))[k]

====
